---- MODULE Spec2Model ----
(***************************************************************************)
(* Unproductive Site Blocker: the background service worker                *)
(* (src/unnamed/part_002, second revision, lines 367-647).                 *)
(*                                                                         *)
(* The state is the worker's in-memory globals, the two storage areas, the *)
(* dynamic rule table and the wall clock.  Every listener is one action;   *)
(* handlers run one at a time, each at one instant `now` of the clock.     *)
(***************************************************************************)
EXTENDS Integers, Sequences, FiniteSets, TLC

\* ------------------------------------------------------------------------
\* Program constants
\* ------------------------------------------------------------------------

DYNAMIC_RULE_ID_START == 1000
HashModulus == 10000
HashMultiplier == 31
MsPerSecond == 1000
SecondsPerMinute == 60
\* Length of a calendar day in ms (todayKey's local date changes every MsPerDay).
MsPerDay == 86400000
\* Number.POSITIVE_INFINITY of getLimitSeconds: above every usage the model reaches.
Infinity == 2147483647
\* 16-bit half of the 32-bit word of `| 0`.
Half == 65536

\* JavaScript null / undefined / "" for a domain, and null / undefined / 0 for
\* an instant: the code only ever tests them with `&&` and `||`, which treat
\* all of these alike.
NoDomain == ""
NoStart == 0

\* ------------------------------------------------------------------------
\* Bounds of the model
\* ------------------------------------------------------------------------

\* Number of clock advances in a behaviour.
MaxTicks == 2

\* Number of clock advances in a behaviour of SpecDwell.
MaxDwellTicks == 3

\* Age in days of the oldest usage key in SpecSweep.
MaxKeyAge == 9

\* Length of the longest string ruleIdFor hashes in SpecHash.
MaxLen == 7

\* The char codes of those strings: ".", "a" and "z".
Chars == {46, 97, 122}

\* Number of clock advances in a behaviour of SpecCollide.
MaxCollideTicks == 3

\* Two domains a user can add in the dashboard, tracked in SpecCollide.
CollidingDomains == {"tiktok.com", "pinterest.com"}

\* The settings the dashboard stores when chrome.storage.sync holds none.
DEFAULT_SETTINGS ==
  [domain \in {"youtube.com", "instagram.com", "reddit.com"} |->
     CASE domain = "youtube.com" -> 30
       [] domain = "instagram.com" -> 15
       [] domain = "reddit.com" -> 20]

\* What the user types into the dashboard's limit input, as Number() reads
\* it: the empty input reads as 0.
LimitInputs == {0, 1, 30}

\* The domains the model configures and visits: the dashboard's defaults.
Domains == {"youtube.com", "reddit.com"}

\* dailyLimitMinutes values the settings take.
Limits == {1, 2}

\* Amounts (ms) by which the clock moves between two events: a correction
\* backwards, under half a second, the alarm period, and a jump to the same
\* time of the next day.
Deltas == {-1000, 400, 60000, MsPerDay}

\* Amounts (ms) by which the clock advances in SpecDwell: forwards, within
\* the day.
DwellDeltas == {400, 60000}

\* The instant the model starts at: noon of day 0.
StartNow == MsPerDay \div 2

\* ------------------------------------------------------------------------
\* State
\* ------------------------------------------------------------------------

VARIABLES
  settings,      \* in memory: settings.restrictedDomains, domain -> dailyLimitMinutes
  todayUsage,    \* in memory: domain -> accumulated seconds today
  activeDomain,  \* in memory: the domain being timed, or NoDomain
  activeStart,   \* in memory: instant (ms) the timing started, or NoStart
  sync,          \* chrome.storage.sync: the "settings" key
  usageStore,    \* chrome.storage.local: the usage_YYYY_MM_DD keys, day -> usage map
  storedDomain,  \* chrome.storage.local: the "activeDomain" key
  storedStart,   \* chrome.storage.local: the "activeStart" key
  rules,         \* chrome.declarativeNetRequest: the dynamic rules
  alarm,         \* chrome.alarms: the "persist-timer" alarm exists
  now,           \* Date.now()
  ticks,         \* number of clock advances so far
  focus,         \* observer: the tracked domain setActiveDomain was last called with
  since,         \* observer: the instant of that call
  dwell,         \* observer: domain -> ms it has been the active domain so far
  text,          \* ruleIdFor: the char codes of `domain` its loop has consumed
  hash,          \* ruleIdFor: its local `hash`, as two 16-bit halves
  pending        \* the listeners suspended at an await, each with its locals

vars == <<settings, todayUsage, activeDomain, activeStart, sync, usageStore,
          storedDomain, storedStart, rules, alarm, now, ticks, focus, since, dwell,
          text, hash, pending>>

\* ------------------------------------------------------------------------
\* Pure helpers
\* ------------------------------------------------------------------------

\* An object with no keys.
EmptyMap == [d \in {} |-> 0]

\* obj[key] || 0
Get(obj, key) == IF key \in DOMAIN obj THEN obj[key] ELSE 0

\* obj[key] = val
Put(obj, key, val) ==
  [k \in (DOMAIN obj) \cup {key} |-> IF k = key THEN val ELSE obj[k]]

\* A URL as getDomain sees it: it parses or not; its hostname is `rest`,
\* preceded by "www." when www is set; its scheme is https unless said
\* otherwise.
Url(valid, www, rest) == [valid |-> valid, www |-> www, rest |-> rest, scheme |-> "https"]
NoUrl == Url(FALSE, FALSE, NoDomain)

\* The URL of a browser-internal page, chrome://extensions/: `new URL` parses
\* it, its hostname is "extensions".
InternalUrl == [Url(TRUE, FALSE, "extensions") EXCEPT !.scheme = "chrome"]

\* getDomain: null when `new URL` throws, else the hostname without one
\* leading "www.".
getDomain(url) == IF url.valid THEN url.rest ELSE NoDomain

\* The calendar day (local date) of an instant.
DayOf(t) == t \div MsPerDay

\* Mutant of todayKey: the key of the day the model starts on, whatever the
\* instant.
todayKeyOfFirstDay(t) == DayOf(StartNow)

\* todayKey: the storage key "usage_YYYY_MM_DD" of the instant's local date,
\* identified by its day.
todayKey(t) == DayOf(t)

\* Math.round(ms / 1000): nearest integer, halves towards +Infinity.
MathRound(ms) == (ms + (MsPerSecond \div 2)) \div MsPerSecond

\* domain.charCodeAt(i), i = 0 .. length-1.
CharCodes(domain) ==
  CASE domain = "youtube.com" -> <<121, 111, 117, 116, 117, 98, 101, 46, 99, 111, 109>>
    [] domain = "tiktok.com" -> <<116, 105, 107, 116, 111, 107, 46, 99, 111, 109>>
    [] domain = "pinterest.com" ->
         <<112, 105, 110, 116, 101, 114, 101, 115, 116, 46, 99, 111, 109>>
    [] domain = "reddit.com" -> <<114, 101, 100, 100, 105, 116, 46, 99, 111, 109>>
    [] domain = "instagram.com" ->
         <<105, 110, 115, 116, 97, 103, 114, 97, 109, 46, 99, 111, 109>>
    [] domain = "example.org" -> <<101, 120, 97, 109, 112, 108, 101, 46, 111, 114, 103>>
    [] OTHER -> <<>>

\* One round of `hash = (hash * 31 + c) | 0`, the 32-bit word kept as two
\* 16-bit halves <<hi, lo>>.
HashStep(h, c) ==
  LET lo1 == h[2] * HashMultiplier + c
  IN  <<(h[1] * HashMultiplier + (lo1 \div Half)) % Half, lo1 % Half>>

RECURSIVE HashFrom(_, _)
HashFrom(h, codes) ==
  IF codes = <<>> THEN h ELSE HashFrom(HashStep(h, Head(codes)), Tail(codes))

\* The signed 32-bit value of the word <<hi, lo>>.
ToInt32(h) ==
  IF h[1] >= Half \div 2 THEN (h[1] - Half) * Half + h[2] ELSE h[1] * Half + h[2]

\* Mutant of AbsRem: the remainder keeps the sign of the hash.
SignedRem(n) ==
  IF n >= 0 THEN n % HashModulus ELSE -((HashModulus - (n % HashModulus)) % HashModulus)

\* Math.abs(hash % 10000): JavaScript's % takes the sign of the dividend.
AbsRem(n) ==
  IF n >= 0 THEN n % HashModulus ELSE (HashModulus - (n % HashModulus)) % HashModulus

\* The value ruleIdFor returns when its loop ends with the word h.
RuleIdOfHash(h) == DYNAMIC_RULE_ID_START + AbsRem(ToInt32(h))

\* Mutant of ruleIdFor: the hash starts from a value of the running worker.
ruleIdForSeeded(domain) ==
  DYNAMIC_RULE_ID_START
    + AbsRem(ToInt32(HashFrom(<<0, IF activeDomain = NoDomain THEN 0 ELSE 1>>,
                              CharCodes(domain))))

ruleIdFor(domain) == RuleIdOfHash(HashFrom(<<0, 0>>, CharCodes(domain)))

\* ------------------------------------------------------------------------
\* The world
\* ------------------------------------------------------------------------

\* The worker's state and its platform's, as one record the handlers transform.
World ==
  [settings |-> settings, todayUsage |-> todayUsage,
   activeDomain |-> activeDomain, activeStart |-> activeStart,
   sync |-> sync, usageStore |-> usageStore,
   storedDomain |-> storedDomain, storedStart |-> storedStart,
   rules |-> rules, alarm |-> alarm]

\* The "settings" key of chrome.storage.sync: absent, or a settings object.
NoSettings == [present |-> FALSE, restrictedDomains |-> EmptyMap]
Settings(policy) == [present |-> TRUE, restrictedDomains |-> policy]

\* `let settings = { restrictedDomains: {} }` and the other initial globals.
InitialSettings == EmptyMap
InitialUsage == EmptyMap

\* The globals of a worker that has just been started.
ResetMemory(w) ==
  [w EXCEPT !.settings = InitialSettings, !.todayUsage = InitialUsage,
            !.activeDomain = NoDomain, !.activeStart = NoStart]

\* ------------------------------------------------------------------------
\* The worker's functions
\* ------------------------------------------------------------------------

\* Mutant of ensureInit: hydration also writes what it loaded back to
\* chrome.storage.local.
ensureInitWritingBack(w, t) ==
  LET key == todayKey(t)
      usage == IF key \in DOMAIN w.usageStore THEN w.usageStore[key] ELSE EmptyMap
  IN  [w EXCEPT
        !.settings = IF w.sync.present THEN w.sync.restrictedDomains ELSE w.settings,
        !.todayUsage = usage,
        !.activeDomain = w.storedDomain,
        !.activeStart = w.storedStart,
        !.usageStore = Put(w.usageStore, key, usage)]

\* Mutant of ensureInit: the usage is restored, the timer is not.
ensureInitWithoutTimer(w, t) ==
  LET key == todayKey(t)
  IN  [w EXCEPT
        !.settings = IF w.sync.present THEN w.sync.restrictedDomains ELSE w.settings,
        !.todayUsage = IF key \in DOMAIN w.usageStore THEN w.usageStore[key] ELSE EmptyMap]

\* Mutant of ensureInit: the stored usage is added to the usage in memory
\* instead of replacing it.
ensureInitMerging(w, t) ==
  LET key == todayKey(t)
      stored == IF key \in DOMAIN w.usageStore THEN w.usageStore[key] ELSE EmptyMap
  IN  [w EXCEPT
        !.settings = IF w.sync.present THEN w.sync.restrictedDomains ELSE w.settings,
        !.todayUsage = [d \in (DOMAIN stored) \cup (DOMAIN w.todayUsage) |->
                          Get(stored, d) + Get(w.todayUsage, d)],
        !.activeDomain = w.storedDomain,
        !.activeStart = w.storedStart]

\* ensureInit: rebuild the globals from storage.
ensureInit(w, t) ==
  LET key == todayKey(t)
  IN  [w EXCEPT
        !.settings = IF w.sync.present THEN w.sync.restrictedDomains ELSE w.settings,
        !.todayUsage = IF key \in DOMAIN w.usageStore THEN w.usageStore[key] ELSE EmptyMap,
        !.activeDomain = w.storedDomain,
        !.activeStart = w.storedStart]

getTrackedDomains(w) == DOMAIN w.settings

getLimitSeconds(w, domain) ==
  IF domain \in DOMAIN w.settings
  THEN w.settings[domain] * SecondsPerMinute
  ELSE Infinity

\* The seconds a flush at instant t credits.
Elapsed(w, t) == MathRound(t - w.activeStart)

\* Mutant of flushActiveTimer: a domain that is not in the cached policy is
\* not credited.
flushTrackedOnly(w, t) ==
  IF w.activeDomain # NoDomain /\ w.activeStart # NoStart
       /\ w.activeDomain \in getTrackedDomains(w)
  THEN IF Elapsed(w, t) > 0
       THEN [w EXCEPT
              !.todayUsage =
                Put(w.todayUsage, w.activeDomain,
                    Get(w.todayUsage, w.activeDomain) + Elapsed(w, t)),
              !.activeStart = t]
       ELSE w
  ELSE w

\* Mutant of flushActiveTimer: the flush without the test elapsed > 0.
flushWithoutGuard(w, t) ==
  IF w.activeDomain # NoDomain /\ w.activeStart # NoStart
  THEN [w EXCEPT
         !.todayUsage =
           Put(w.todayUsage, w.activeDomain,
               Get(w.todayUsage, w.activeDomain) + Elapsed(w, t)),
         !.activeStart = t]
  ELSE w

flushActiveTimer(w, t) ==
  IF w.activeDomain # NoDomain /\ w.activeStart # NoStart
  THEN IF Elapsed(w, t) > 0
       THEN [w EXCEPT
              !.todayUsage =
                Put(w.todayUsage, w.activeDomain,
                    Get(w.todayUsage, w.activeDomain) + Elapsed(w, t)),
              !.activeStart = t]
       ELSE w
  ELSE w

\* Mutant of StoreUsage: the usage map is written, the timer is not.
StoreUsageWithoutTimer(w, t) ==
  [w EXCEPT !.usageStore = Put(w.usageStore, todayKey(t), w.todayUsage)]

\* chrome.storage.local.set of persistUsage.
StoreUsage(w, t) ==
  [w EXCEPT !.usageStore = Put(w.usageStore, todayKey(t), w.todayUsage),
            !.storedDomain = w.activeDomain,
            !.storedStart = w.activeStart]

persistUsage(w, t) == StoreUsage(flushActiveTimer(w, t), t)

\* ruleIdFor on the domains a policy can hold, as a table.
RuleIds ==
  [domain \in Domains \cup CollidingDomains \cup DOMAIN DEFAULT_SETTINGS |->
     ruleIdFor(domain)]

\* A dynamic rule: its id and the domain of its urlFilter.
Rule(domain) == [id |-> RuleIds[domain], domain |-> domain]

\* chrome.declarativeNetRequest.updateDynamicRules({removeRuleIds, addRules}).
updateDynamicRules(table, removeRuleIds, addRules) ==
  {r \in table : r.id \notin removeRuleIds} \cup addRules

\* Mutant of addDynamicBlockRule: a rule that is already there is removed and
\* not added again.
toggleDynamicBlockRule(w, domain) ==
  IF Rule(domain) \in w.rules
  THEN [w EXCEPT !.rules = updateDynamicRules(w.rules, {RuleIds[domain]}, {})]
  ELSE [w EXCEPT !.rules = updateDynamicRules(w.rules, {RuleIds[domain]}, {Rule(domain)})]

addDynamicBlockRule(w, domain) ==
  [w EXCEPT !.rules = updateDynamicRules(w.rules, {RuleIds[domain]}, {Rule(domain)})]

removeDynamicBlockRule(w, domain) ==
  [w EXCEPT !.rules = updateDynamicRules(w.rules, {RuleIds[domain]}, {})]

\* Mutant of removeAllDynamicBlockRules: nothing is removed.
removeNoDynamicBlockRules(w) == w

removeAllDynamicBlockRules(w) ==
  IF w.rules # {}
  THEN [w EXCEPT !.rules = updateDynamicRules(w.rules, {r.id : r \in w.rules}, {})]
  ELSE w

\* Mutant of OverLimit: seconds > limit.
OverLimitStrict(w, domain) == Get(w.todayUsage, domain) > getLimitSeconds(w, domain)

\* The test of checkLimits: seconds >= limit.
OverLimit(w, domain) == Get(w.todayUsage, domain) >= getLimitSeconds(w, domain)

\* The loop of checkLimits over the domains still to visit.
RECURSIVE checkLimitsLoop(_, _)
checkLimitsLoop(w, todo) ==
  IF todo = {} THEN w
  ELSE LET domain == CHOOSE d \in todo : TRUE
           w1 == IF OverLimit(w, domain) THEN addDynamicBlockRule(w, domain) ELSE w
       IN  checkLimitsLoop(w1, todo \ {domain})

\* Mutant of checkLimits: the rules of tracked domains under their limit are
\* removed.
checkLimitsUnblocking(w) ==
  LET w1 == checkLimitsLoop(w, getTrackedDomains(w))
  IN  [w1 EXCEPT !.rules =
        {r \in w1.rules : r.domain \in getTrackedDomains(w) => OverLimit(w, r.domain)}]

checkLimits(w) == checkLimitsLoop(w, getTrackedDomains(w))

\* Mutant of StartTimer: for an untracked domain activeDomain is cleared and
\* activeStart is left as it is.
StartTimerKeepingStart(w, domain, t) ==
  IF domain # NoDomain /\ domain \in getTrackedDomains(w)
  THEN [w EXCEPT !.activeDomain = domain, !.activeStart = t]
  ELSE [w EXCEPT !.activeDomain = NoDomain]

\* Mutant of StartTimer: every domain that is not null is timed.
StartTimerUntracked(w, domain, t) ==
  IF domain # NoDomain
  THEN [w EXCEPT !.activeDomain = domain, !.activeStart = t]
  ELSE [w EXCEPT !.activeDomain = NoDomain, !.activeStart = NoStart]

\* The timer setActiveDomain sets after its flush.
StartTimer(w, domain, t) ==
  IF domain # NoDomain /\ domain \in getTrackedDomains(w)
  THEN [w EXCEPT !.activeDomain = domain, !.activeStart = t]
  ELSE [w EXCEPT !.activeDomain = NoDomain, !.activeStart = NoStart]

setActiveDomain(w, domain, t) ==
  checkLimits(persistUsage(StartTimer(flushActiveTimer(w, t), domain, t), t))

\* Mutant of setActiveDomainSteps: checkLimits runs before persistUsage.
setActiveDomainStepsCheckingFirst(w, domain, t) ==
  LET flushed == flushActiveTimer(w, t)
      timed == StartTimer(flushed, domain, t)
      checked == checkLimits(timed)
  IN  <<w, flushed, timed, checked, persistUsage(checked, t)>>

\* The worlds a call of setActiveDomain goes through, in the order of its
\* statements: on entry, after flushActiveTimer, after the timer update,
\* after `await persistUsage()`, after `await checkLimits()`.
setActiveDomainSteps(w, domain, t) ==
  LET flushed == flushActiveTimer(w, t)
      timed == StartTimer(flushed, domain, t)
      persisted == persistUsage(timed, t)
  IN  <<w, flushed, timed, persisted, checkLimits(persisted)>>

\* Keys of chrome.storage.local that start with "usage_" and are not the key
\* of a day: "usage_backup" (one field after the prefix),
\* "usage_2026_11_03_old" (four fields) and "usage_2026_13_45" (three fields
\* that name no date).  The key of a day is the day's number, 0 or more.
KeyOneField == -1
KeyFourFields == -2
KeyNoDate == -3
MalformedKeys == {KeyOneField, KeyFourFields, KeyNoDate}

\* key.replace("usage_", "").split("_").length
FieldCount(key) ==
  CASE key = KeyOneField -> 1
    [] key = KeyFourFields -> 4
    [] OTHER -> 3

\* new Date(`${parts[1]}-${parts[2]}-${parts[3]}`) of cleanupOldUsage, for
\* a key of three fields: parts[3] is undefined, and the text
\* "MM-DD-undefined" is no date.  An invalid Date is NaN.
NaN == -1
KeyDate(key) == NaN

\* Mutant of DateBefore: an invalid Date counts as older than the cutoff.
DateBeforeOrInvalid(d, cutoff) == d = NaN \/ d < cutoff

\* d < cutoff on Dates: false whenever d is NaN.
DateBefore(d, cutoff) == d # NaN /\ d < cutoff

\* chrome.storage.local.remove(keysToRemove).
RemoveKeys(store, keys) == [k \in (DOMAIN store) \ keys |-> store[k]]

USAGE_RETENTION_DAYS == 7

cleanupOldUsage(w, t) ==
  LET cutoff == DayOf(t) - USAGE_RETENTION_DAYS
      keysToRemove ==
        {key \in DOMAIN w.usageStore :
           FieldCount(key) = 3 /\ DateBefore(KeyDate(key), cutoff)}
  IN  IF keysToRemove # {}
      THEN [w EXCEPT !.usageStore = RemoveKeys(w.usageStore, keysToRemove)]
      ELSE w

\* ------------------------------------------------------------------------
\* Events and their listeners
\* ------------------------------------------------------------------------

\* An event as the platform delivers it.  ok: the tab lookup succeeds
\* (tabs.onActivated), changeInfo.url is set (tabs.onUpdated), a window is
\* focused (windows.onFocusChanged), the window is incognito
\* (windows.onCreated).  active: the tab is (or the window has) an active tab.
\* url: the tab's URL.  newValue: changes.settings.newValue.
Event(type, ok, active, url, newValue) ==
  [type |-> type, ok |-> ok, active |-> active, url |-> url, newValue |-> newValue]

\* The URLs tabs show: two tracked sites (one with "www."), an untracked
\* site, and a tab without a URL (tab.url || "").
Urls ==
  {Url(TRUE, TRUE, "youtube.com"), Url(TRUE, FALSE, "reddit.com"),
   Url(TRUE, FALSE, "example.org"), NoUrl}

\* The settings objects the dashboard stores.
Policies ==
  {p \in UNION {[S -> Limits] : S \in SUBSET Domains} :
     "reddit.com" \in DOMAIN p => p["reddit.com"] = 1}
SettingsValues == {Settings(p) : p \in Policies} \cup {NoSettings}

\* Mutant of onActivated: a failed tab lookup ends the timing.
onActivatedStoppingOnError(w, ev, t) ==
  LET w1 == ensureInit(w, t)
  IN  IF ev.ok THEN setActiveDomain(w1, getDomain(ev.url), t)
      ELSE setActiveDomain(w1, NoDomain, t)

\* chrome.tabs.onActivated
onActivated(w, ev, t) ==
  LET w1 == ensureInit(w, t)
  IN  IF ev.ok THEN setActiveDomain(w1, getDomain(ev.url), t) ELSE w1

\* Mutant of onUpdated: the URL change of any tab, active or not, is passed
\* to setActiveDomain.
onUpdatedAnyTab(w, ev, t) ==
  IF ev.ok THEN setActiveDomain(ensureInit(w, t), getDomain(ev.url), t) ELSE w

\* chrome.tabs.onUpdated
onUpdated(w, ev, t) ==
  IF ev.ok
  THEN LET w1 == ensureInit(w, t)
       IN  IF ev.active THEN setActiveDomain(w1, getDomain(ev.url), t) ELSE w1
  ELSE w

\* Mutant of onFocusChanged: WINDOW_ID_NONE is not handled, the timer goes on.
onFocusChangedIgnoringLoss(w, ev, t) ==
  LET w1 == ensureInit(w, t)
  IN  IF ev.ok /\ ev.active THEN setActiveDomain(w1, getDomain(ev.url), t) ELSE w1

\* chrome.windows.onFocusChanged
onFocusChanged(w, ev, t) ==
  LET w1 == ensureInit(w, t)
  IN  IF ~ev.ok THEN setActiveDomain(w1, NoDomain, t)
      ELSE IF ev.active THEN setActiveDomain(w1, getDomain(ev.url), t)
      ELSE w1

\* The windows the chrome.windows.onCreated listener asks
\* chrome.windows.remove to close: the created window when it is incognito.
WindowsRemoved(ev) == IF ev.type = "windows.onCreated" /\ ev.ok THEN {ev} ELSE {}

\* Mutant of onCreated: an incognito window ends the timing like a focus loss.
onCreatedStoppingTimer(w, ev) ==
  IF ev.ok THEN [w EXCEPT !.activeDomain = NoDomain, !.activeStart = NoStart,
                          !.storedDomain = NoDomain, !.storedStart = NoStart]
  ELSE w

\* chrome.windows.onCreated: closes an incognito window, touches no state.
onCreated(w, ev) == w

\* The loop of storage.onChanged over oldDomains.
RECURSIVE removeLeftDomains(_, _, _)
removeLeftDomains(w, todo, newDomains) ==
  IF todo = {} THEN w
  ELSE LET domain == CHOOSE d \in todo : TRUE
           w1 == IF domain \notin newDomains THEN removeDynamicBlockRule(w, domain) ELSE w
       IN  removeLeftDomains(w1, todo \ {domain}, newDomains)

\* Mutant of onChanged: the domains of the new settings are added to the
\* policy cached before the listener ran, which keeps the domains it had.
onChangedMergingPolicy(w, ev, t) ==
  LET w1 == ensureInit(w, t)
  IN  IF ev.newValue.present
      THEN LET new == ev.newValue.restrictedDomains
               old == w.settings
           IN  checkLimits([w1 EXCEPT !.settings =
                 [d \in (DOMAIN old) \cup (DOMAIN new) |->
                    IF d \in DOMAIN new THEN new[d] ELSE old[d]]])
      ELSE w1

\* Mutant of onChanged: the new settings are cached, the limits not re-checked.
onChangedWithoutCheck(w, ev, t) ==
  LET w1 == ensureInit(w, t)
  IN  IF ev.newValue.present
      THEN LET oldDomains == getTrackedDomains(w1)
               w2 == [w1 EXCEPT !.settings = ev.newValue.restrictedDomains]
               newDomains == getTrackedDomains(w2)
           IN  removeLeftDomains(w2, oldDomains, newDomains)
      ELSE w1

\* chrome.storage.onChanged for the "settings" key of the sync area; the
\* storage already holds the new value when the listener runs.
onChanged(w, ev, t) ==
  LET w1 == ensureInit(w, t)
  IN  IF ev.newValue.present
      THEN LET oldDomains == getTrackedDomains(w1)
               w2 == [w1 EXCEPT !.settings = ev.newValue.restrictedDomains]
               newDomains == getTrackedDomains(w2)
           IN  checkLimits(removeLeftDomains(w2, oldDomains, newDomains))
      ELSE w1

\* Mutant of onAlarm: the limits are checked against the ledger as loaded.
onAlarmWithoutPersist(w, t) == checkLimits(ensureInit(w, t))

\* chrome.alarms.onAlarm for "persist-timer"
onAlarm(w, t) == checkLimits(persistUsage(ensureInit(w, t), t))

\* The steps chrome.runtime.onInstalled and chrome.runtime.onStartup share.
initialize(w, t) ==
  checkLimits(removeAllDynamicBlockRules(cleanupOldUsage(ensureInit(w, t), t)))

\* chrome.runtime.onInstalled: the shared steps, then chrome.alarms.create.
onInstalled(w, t) == [initialize(w, t) EXCEPT !.alarm = TRUE]

\* chrome.runtime.onStartup
onStartup(w, t) == initialize(w, t)

\* The write of the dashboard (or of the sync service) that an onChanged
\* event reports.
WriteSettings(w, value) == [w EXCEPT !.sync = value]

\* What the event's listener makes of the world at instant t.
Handle(w, ev, t) ==
  CASE ev.type = "tabs.onActivated" -> onActivated(w, ev, t)
    [] ev.type = "tabs.onUpdated" -> onUpdated(w, ev, t)
    [] ev.type = "windows.onFocusChanged" -> onFocusChanged(w, ev, t)
    [] ev.type = "windows.onCreated" -> onCreated(w, ev)
    [] ev.type = "storage.onChanged" -> onChanged(WriteSettings(w, ev.newValue), ev, t)
    [] ev.type = "alarms.onAlarm" -> onAlarm(w, t)
    [] ev.type = "runtime.onInstalled" -> onInstalled(w, t)
    [] ev.type = "runtime.onStartup" -> onStartup(w, t)
    [] ev.type = "restart" -> ResetMemory(w)

\* A call of a platform API made by a listener; guarded: the call is made
\* inside a try block of the listener, whose catch logs the failure.
Call(api, guarded) == [api |-> api, guarded |-> guarded]

\* The calls of ensureInit.
ensureInitCalls(guarded) ==
  {Call("storage.sync.get", guarded), Call("storage.local.get", guarded)}

\* The calls of persistUsage.
persistUsageCalls(guarded) == {Call("storage.local.set", guarded)}

\* The calls of checkLimits in world w: updateDynamicRules for every tracked
\* domain at or above its limit.
checkLimitsCalls(w, guarded) ==
  IF \E domain \in getTrackedDomains(w) : OverLimit(w, domain)
  THEN {Call("declarativeNetRequest.updateDynamicRules", guarded)}
  ELSE {}

\* The calls of setActiveDomain(domain) in world w.
setActiveDomainCalls(w, domain, t, guarded) ==
  persistUsageCalls(guarded) \cup checkLimitsCalls(setActiveDomain(w, domain, t), guarded)

\* The calls of removeAllDynamicBlockRules in world w.
removeAllCalls(w, guarded) ==
  {Call("declarativeNetRequest.getDynamicRules", guarded)}
    \cup (IF w.rules # {}
          THEN {Call("declarativeNetRequest.updateDynamicRules", guarded)}
          ELSE {})

\* The calls of the steps onInstalled and onStartup share; none is in a try
\* block.
initializeCalls(w, t) ==
  ensureInitCalls(FALSE) \cup {Call("storage.local.get", FALSE)}
    \cup removeAllCalls(w, FALSE) \cup checkLimitsCalls(ensureInit(w, t), FALSE)

\* The platform calls the listener of ev makes in world w, each with its
\* position relative to the listener's try block.
ListenerCalls(w, ev, t) ==
  CASE ev.type = "tabs.onActivated" ->
         ensureInitCalls(FALSE) \cup {Call("tabs.get", TRUE)}
           \cup (IF ev.ok
                 THEN setActiveDomainCalls(ensureInit(w, t), getDomain(ev.url), t, TRUE)
                 ELSE {})
    [] ev.type = "tabs.onUpdated" ->
         IF ev.ok
         THEN ensureInitCalls(FALSE) \cup {Call("tabs.query", FALSE)}
                \cup (IF ev.active
                      THEN setActiveDomainCalls(ensureInit(w, t), getDomain(ev.url), t, FALSE)
                      ELSE {})
         ELSE {}
    [] ev.type = "windows.onFocusChanged" ->
         ensureInitCalls(FALSE)
           \cup (IF ~ev.ok
                 THEN setActiveDomainCalls(ensureInit(w, t), NoDomain, t, FALSE)
                 ELSE {Call("tabs.query", TRUE)}
                        \cup (IF ev.active
                              THEN setActiveDomainCalls(ensureInit(w, t), getDomain(ev.url),
                                                        t, TRUE)
                              ELSE {}))
    [] ev.type = "windows.onCreated" ->
         IF ev.ok THEN {Call("windows.remove", TRUE)} ELSE {}
    [] ev.type = "storage.onChanged" ->
         ensureInitCalls(FALSE)
           \cup (IF ev.newValue.present
                 THEN checkLimitsCalls(onChanged(WriteSettings(w, ev.newValue), ev, t), FALSE)
                 ELSE {})
    [] ev.type = "alarms.onAlarm" ->
         ensureInitCalls(FALSE) \cup persistUsageCalls(FALSE)
           \cup checkLimitsCalls(onAlarm(w, t), FALSE)
    [] ev.type = "runtime.onInstalled" ->
         initializeCalls(w, t) \cup {Call("alarms.create", FALSE)}
    [] ev.type = "runtime.onStartup" -> initializeCalls(w, t)
    [] ev.type = "restart" -> {}

\* ------------------------------------------------------------------------
\* Specification
\* ------------------------------------------------------------------------

\* The events the platform can deliver in world w.
TabActivatedEvents ==
  {Event("tabs.onActivated", TRUE, TRUE, url, NoSettings) : url \in Urls}
    \cup {Event("tabs.onActivated", FALSE, FALSE, NoUrl, NoSettings)}

TabUpdatedEvents ==
  {Event("tabs.onUpdated", TRUE, active, url, NoSettings) :
     active \in BOOLEAN, url \in Urls \ {NoUrl}}
    \cup {Event("tabs.onUpdated", FALSE, FALSE, NoUrl, NoSettings)}

FocusChangedEvents ==
  {Event("windows.onFocusChanged", TRUE, TRUE, url, NoSettings) : url \in Urls}
    \cup {Event("windows.onFocusChanged", ok, FALSE, NoUrl, NoSettings) : ok \in BOOLEAN}

WindowCreatedEvents ==
  {Event("windows.onCreated", incognito, FALSE, NoUrl, NoSettings) : incognito \in BOOLEAN}

SettingsChangedEvents(w) ==
  {Event("storage.onChanged", TRUE, FALSE, NoUrl, value) : value \in SettingsValues \ {w.sync}}

AlarmEvents(w) ==
  IF w.alarm THEN {Event("alarms.onAlarm", TRUE, FALSE, NoUrl, NoSettings)} ELSE {}

InstalledEvent == Event("runtime.onInstalled", TRUE, FALSE, NoUrl, NoSettings)
StartupEvent == Event("runtime.onStartup", TRUE, FALSE, NoUrl, NoSettings)
RestartEvent == Event("restart", TRUE, FALSE, NoUrl, NoSettings)

\* Every event some listener handles in world w.
Events(w) ==
  TabActivatedEvents \cup TabUpdatedEvents \cup FocusChangedEvents
    \cup WindowCreatedEvents \cup SettingsChangedEvents(w) \cup AlarmEvents(w)
    \cup {InstalledEvent, StartupEvent}

\* A fresh install at noon of day 0: empty storage, no rules, the initial
\* globals.
Init ==
  /\ settings = InitialSettings
  /\ todayUsage = InitialUsage
  /\ activeDomain = NoDomain
  /\ activeStart = NoStart
  /\ sync = NoSettings
  /\ usageStore = EmptyMap
  /\ storedDomain = NoDomain
  /\ storedStart = NoStart
  /\ rules = {}
  /\ alarm = FALSE
  /\ now = StartNow
  /\ ticks = 0
  /\ focus = NoDomain
  /\ since = NoStart
  /\ dwell = EmptyMap
  /\ text = <<>>
  /\ hash = <<0, 0>>
  /\ pending = <<>>

\* The event's listener runs to completion at the current instant.
Run(ev) ==
  \E w \in {Handle(World, ev, now)} :
      /\ settings' = w.settings
      /\ todayUsage' = w.todayUsage
      /\ activeDomain' = w.activeDomain
      /\ activeStart' = w.activeStart
      /\ sync' = w.sync
      /\ usageStore' = w.usageStore
      /\ storedDomain' = w.storedDomain
      /\ storedStart' = w.storedStart
      /\ rules' = w.rules
      /\ alarm' = w.alarm
      /\ UNCHANGED <<now, ticks, text, hash, pending>>

Deliver(ev) == Run(ev) /\ UNCHANGED <<focus, since, dwell>>

TabActivated == \E ev \in TabActivatedEvents : Deliver(ev)

TabUpdated == \E ev \in TabUpdatedEvents : Deliver(ev)

FocusChanged == \E ev \in FocusChangedEvents : Deliver(ev)

WindowCreated == \E ev \in WindowCreatedEvents : Deliver(ev)

SettingsChanged == \E ev \in SettingsChangedEvents(World) : Deliver(ev)

Alarm == \E ev \in AlarmEvents(World) : Deliver(ev)

Installed == \E ev \in {InstalledEvent} : Deliver(ev)

Startup == \E ev \in {StartupEvent} : Deliver(ev)

\* The platform stops the idle worker; its globals are gone.
Restart == \E ev \in {RestartEvent} : Deliver(ev)

\* Time passes between two events.
Advance ==
  /\ ticks < MaxTicks
  /\ \E dt \in Deltas : now' = now + dt
  /\ ticks' = ticks + 1
  /\ UNCHANGED <<settings, todayUsage, activeDomain, activeStart, sync, usageStore,
                 storedDomain, storedStart, rules, alarm, focus, since, dwell,
                 text, hash, pending>>

Next ==
  \/ TabActivated
  \/ TabUpdated
  \/ FocusChanged
  \/ WindowCreated
  \/ SettingsChanged
  \/ Alarm
  \/ Installed
  \/ Startup
  \/ Restart
  \/ Advance

Spec == Init /\ [][Next]_vars

\* ------------------------------------------------------------------------
\* Vocabulary of the properties
\* ------------------------------------------------------------------------

\* The world after the listener of ev has run in the current state.
After(ev) == Handle(World, ev, now)

\* The ledger storage holds for the day of instant t (empty when the key is
\* absent).
Ledger(w, t) == IF DayOf(t) \in DOMAIN w.usageStore THEN w.usageStore[DayOf(t)] ELSE EmptyMap

\* The listener of ev reaches setActiveDomain.
CallsSetActiveDomain(ev) ==
  \/ ev.type = "tabs.onActivated" /\ ev.ok
  \/ ev.type = "tabs.onUpdated" /\ ev.ok /\ ev.active
  \/ ev.type = "windows.onFocusChanged" /\ (~ev.ok \/ ev.active)

\* The domain the listener of ev passes to setActiveDomain.
DomainOf(ev) ==
  IF ev.type = "windows.onFocusChanged" /\ ~ev.ok THEN NoDomain ELSE getDomain(ev.url)

\* The listener of ev flushes the timer (in setActiveDomain or persistUsage).
Flushes(ev) == CallsSetActiveDomain(ev) \/ ev.type = "alarms.onAlarm"

\* The listener of ev ends with checkLimits.
CallsCheckLimits(ev) ==
  \/ Flushes(ev)
  \/ ev.type \in {"runtime.onInstalled", "runtime.onStartup"}
  \/ ev.type = "storage.onChanged" /\ ev.newValue.present

\* The table holds the block rule of the domain.
Blocked(w, domain) == Rule(domain) \in w.rules

\* The domain is in the cached policy with usage at or above its limit.
AtLimit(w, domain) ==
  /\ domain \in DOMAIN w.settings
  /\ Get(w.todayUsage, domain) >= w.settings[domain] * SecondsPerMinute

\* A timer is running in world w.
TimerRuns(w) == w.activeDomain # NoDomain /\ w.activeStart # NoStart

\* The worlds flushActiveTimer is called in by the listeners deliverable
\* now: after ensureInit, and in persistUsage after setActiveDomain has set
\* the timer.
FlushSites ==
  LET w1 == ensureInit(World, now)
  IN  {w1} \cup {StartTimer(flushActiveTimer(w1, now), d, now) : d \in Domains \cup {NoDomain}}

\* ------------------------------------------------------------------------
\* Properties
\* ------------------------------------------------------------------------

\* C10: a flush at an instant not after activeStart (the same instant, or a
\* clock that moved backwards) changes no usage entry and leaves activeStart
\* as it is.
C10_NonPositiveFlushIsNoOp ==
  \A w \in FlushSites :
    (TimerRuns(w) /\ now - w.activeStart <= 0) =>
      /\ flushActiveTimer(w, now).todayUsage = w.todayUsage
      /\ flushActiveTimer(w, now).activeStart = w.activeStart

\* C10 witness: a flush is due with the clock behind activeStart, and
\* another right after a timer was started at the same instant.
C10_Witness ==
  /\ \E w \in FlushSites : TimerRuns(w) /\ now - w.activeStart < 0
  /\ \E w \in FlushSites : TimerRuns(w) /\ now - w.activeStart = 0

Accumulated(domain) ==
  Get(Ledger(World, now), domain)
    + (IF storedDomain = domain /\ storedStart # NoStart /\ now - storedStart > 0
       THEN MathRound(now - storedStart) ELSE 0)

\* The policy a listener works with after hydration.
HydratedPolicy == IF sync.present THEN sync.restrictedDomains ELSE settings

JustStarted == World = ResetMemory(World)

\* The seconds by which the listener of ev raised the stored usage of the
\* domain.
Gain(ev, domain) ==
  Get(Ledger(After(ev), now), domain) - Get(Ledger(World, now), domain)

\* C2: storage holds the timer snapshot (D, T) of an earlier instant T of
\* today.  The next flush, also that of a worker started in between, adds
\* now - T in seconds (to the nearest second) to D's usage and nothing to any
\* other domain's.
C2_FlushResumesPersistedTimer ==
  \A ev \in Events(World) :
    ( /\ Flushes(ev)
      /\ storedDomain # NoDomain
      /\ storedStart # NoStart
      /\ now > storedStart
      /\ DayOf(storedStart) = DayOf(now) )
    => /\ 2 * (MsPerSecond * Gain(ev, storedDomain) - (now - storedStart)) <= MsPerSecond
       /\ 2 * (MsPerSecond * Gain(ev, storedDomain) - (now - storedStart)) > -MsPerSecond
       /\ \A d \in (DOMAIN Ledger(After(ev), now) \cup DOMAIN Ledger(World, now)) \ {storedDomain} :
            Gain(ev, d) = 0

\* C2 witness: a worker that has just been started finds the snapshot of a
\* tracked domain timed since a minute or more, and the flush of the next
\* alarm credits it.
C2_Witness ==
  \E ev \in AlarmEvents(World) :
    /\ JustStarted
    /\ storedDomain \in DOMAIN HydratedPolicy
    /\ storedStart # NoStart
    /\ DayOf(storedStart) = DayOf(now)
    /\ now - storedStart >= SecondsPerMinute * MsPerSecond
    /\ Gain(ev, storedDomain) >= SecondsPerMinute

\* What outlives the worker: both storage areas and the rule table.
Persisted(w) == <<w.sync, w.usageStore, w.storedDomain, w.storedStart, w.rules>>

\* C3: whatever event comes next, its listener leaves the same storage and
\* the same rule table whether or not the worker's globals were reset to
\* their initial values before it.
C3_RestartTransparent ==
  \A ev \in Events(World) :
    Persisted(Handle(World, ev, now)) = Persisted(Handle(ResetMemory(World), ev, now))

\* C6: when the settings change removes a blocked domain from the policy, its
\* block rule is gone when the storage.onChanged listener ends, and the
\* ledger of today is as before.
C6_RemovedDomainUnblocked ==
  \A ev \in SettingsChangedEvents(World) :
    (sync.present /\ ev.newValue.present) =>
      \A d \in (DOMAIN sync.restrictedDomains) \ (DOMAIN ev.newValue.restrictedDomains) :
        Blocked(World, d) =>
          /\ ~Blocked(After(ev), d)
          /\ Ledger(After(ev), now) = Ledger(World, now)

\* Storage holds the ledger of an earlier day and none of today: the next
\* event is the first of a new day.
FirstEventOfDay ==
  /\ DayOf(now) \notin DOMAIN usageStore
  /\ \E day \in DOMAIN usageStore : day < DayOf(now)

\* C8: the listener of the first event of a new day starts from an empty
\* ledger, and when it has run checkLimits no domain of the policy whose
\* usage of the new day is below its limit is blocked.
C8_NewDayStartsUnblocked ==
  \A ev \in Events(World) :
    (FirstEventOfDay /\ CallsCheckLimits(ev)) =>
      /\ ensureInit(World, now).todayUsage = EmptyMap
      /\ \A d \in DOMAIN After(ev).settings : Blocked(After(ev), d) => AtLimit(After(ev), d)

\* Storage holds the snapshot of a timer started on an earlier day.
StaleTimer == storedStart # NoStart /\ DayOf(storedStart) < DayOf(now)

\* C9: hydration discards the snapshot of a timer started on an earlier day,
\* and the next flush adds nothing to the ledger of the new day.
C9_StaleTimerDiscarded ==
  StaleTimer =>
    /\ ensureInit(World, now).activeDomain = NoDomain
    /\ ensureInit(World, now).activeStart = NoStart
    /\ \A ev \in Events(World) :
         Flushes(ev) => \A d \in DOMAIN Ledger(After(ev), now) : Gain(ev, d) = 0

\* The worlds checkLimits is called in by the listeners deliverable now:
\* after persistUsage (setActiveDomain, onAlarm), after
\* removeAllDynamicBlockRules (onInstalled, onStartup), after the new
\* settings are cached (storage.onChanged), and in the state as it is.
CheckLimitsSites ==
  LET w1 == ensureInit(World, now)
  IN  {World, persistUsage(w1, now), removeAllDynamicBlockRules(w1)}
        \cup {[w1 EXCEPT !.settings = p] : p \in Policies}

InitializationStep ==
  \/ World' = onInstalled(World, now)
  \/ World' = onStartup(World, now)

C15_AbsentPolicyTracksNothing ==
  ~sync.present =>
    /\ getTrackedDomains(ensureInit(World, now)) = {}
    /\ \A ev \in Events(World) : CallsSetActiveDomain(ev) => ~TimerRuns(After(ev))

\* C16: within a day (storage already holds today's key), when the next
\* listener has run, in this worker or in one started afresh, no value of the
\* ledger, in memory or under today's key, is negative or lower than it was.
C16_LedgerNeverDecreases ==
  DayOf(now) \in DOMAIN usageStore =>
    \A ev \in Events(World) :
      \A w \in {World, ResetMemory(World)} :
        \A a \in {Handle(w, ev, now)} :
          \A d \in Domains :
            /\ Get(a.todayUsage, d) >= 0
            /\ Get(Ledger(a, now), d) >= 0
            /\ Get(a.todayUsage, d) >= Get(todayUsage, d)
            /\ Get(Ledger(a, now), d) >= Get(Ledger(World, now), d)

\* C17: every platform call a listener makes is made inside a try block of
\* the listener, so that no failure of a call leaves the listener uncaught.
C17_EveryCallGuarded ==
  \A ev \in Events(World) :
    \A c \in ListenerCalls(World, ev, now) : c.guarded

C19_IncognitoWindowClosed ==
  \A ev \in WindowCreatedEvents :
    /\ ev.ok => WindowsRemoved(ev) = {ev}
    /\ ~ev.ok => WindowsRemoved(ev) = {}
    /\ After(ev) = World

\* C19 witness: an incognito window is created while a timer runs and a rule
\* blocks a domain.
C19_Witness ==
  /\ TimerRuns(World)
  /\ storedStart # NoStart
  /\ rules # {}
  /\ \E ev \in WindowCreatedEvents : ev.ok /\ WindowsRemoved(ev) # {}

\* C20: hydration leaves chrome.storage.sync, chrome.storage.local and the
\* rule table as they are, in a worker that stayed alive, in one started
\* afresh, and in the listener that does nothing but hydrate (tabs.onActivated
\* for a tab that is gone).
C20_HydrationOnlyReads ==
  /\ Persisted(ensureInit(World, now)) = Persisted(World)
  /\ Persisted(ensureInit(ResetMemory(World), now)) = Persisted(World)
  /\ \A ev \in TabActivatedEvents : ~ev.ok => Persisted(After(ev)) = Persisted(World)

\* C20 witness: hydration has something to load: the globals differ from
\* what storage holds, and storage has no ledger of today yet.
C20_Witness ==
  /\ ensureInit(World, now) # World
  /\ usageStore # EmptyMap
  /\ storedStart # NoStart
  /\ DayOf(now) \notin DOMAIN usageStore

\* The ledger the last persistUsage wrote: the one under the latest key.
LastLedger(w) ==
  IF DOMAIN w.usageStore = {} THEN EmptyMap
  ELSE w.usageStore[CHOOSE day \in DOMAIN w.usageStore :
                      \A other \in DOMAIN w.usageStore : other <= day]

\* The globals hold what the last completed listener persisted.
MemoryAsPersisted ==
  /\ todayUsage = LastLedger(World)
  /\ activeDomain = storedDomain
  /\ activeStart = storedStart
  /\ settings = HydratedPolicy

\* C21 as stated: whenever the globals hold what the last completed listener
\* persisted, hydration changes none of them.
C21_HydrationChangesNothing ==
  MemoryAsPersisted => ensureInit(World, now) = World

\* C21: a second ensureInit right after the first, in a worker that stayed
\* alive or in one started afresh, yields the globals of the first; and
\* hydration at the instant a listener has completed, the worker still alive,
\* changes no global (every step that changes the world and is not a restart
\* is such a listener).
C21_HydrationIdempotent ==
  [][/\ \A w \in {World, ResetMemory(World)} :
          ensureInit(ensureInit(w, now), now) = ensureInit(w, now)
     /\ \/ World' = World
        \/ World' = ResetMemory(World)
        \/ ensureInit(World', now') = World']_vars

\* C21 witness: a worker that stayed alive holds a running timer and a
\* non-empty ledger, both as storage has them for today.
C21_Witness ==
  /\ TimerRuns(World)
  /\ todayUsage # EmptyMap
  /\ ~JustStarted
  /\ DayOf(now) \in DOMAIN usageStore
  /\ ensureInit(World, now) = World

\* C22: when persistUsage has completed, storage holds the whole in-memory
\* usage map under today's key and the in-memory timer under activeDomain and
\* activeStart (none and none when nothing is timed); a worker started afresh
\* that hydrates at any instant of the same day has exactly that usage map
\* and timer.
C22_PersistHydrateRoundTrip ==
  \A w \in FlushSites :
    \A p \in {persistUsage(w, now)} :
      /\ todayKey(now) \in DOMAIN p.usageStore
      /\ p.usageStore[todayKey(now)] = p.todayUsage
      /\ p.storedDomain = p.activeDomain
      /\ p.storedStart = p.activeStart
      /\ p.activeDomain = NoDomain => p.storedDomain = NoDomain /\ p.storedStart = NoStart
      /\ \A dt \in Deltas :
           DayOf(now + dt) = DayOf(now) =>
             \A h \in {ensureInit(ResetMemory(p), now + dt)} :
               /\ h.todayUsage = p.todayUsage
               /\ h.activeDomain = p.activeDomain
               /\ h.activeStart = p.activeStart

\* C22 witness: a worker started afresh finds the non-empty ledger of today
\* and the timer an earlier persistUsage wrote, and the next persistUsage
\* has an interval to flush before it writes.
C22_Witness ==
  /\ JustStarted
  /\ DayOf(now) \in DOMAIN usageStore
  /\ usageStore[DayOf(now)] # EmptyMap
  /\ storedDomain # NoDomain
  /\ DayOf(storedStart) = DayOf(now)
  /\ \E w \in FlushSites : persistUsage(w, now).todayUsage # w.todayUsage

\* The domains listeners pass to setActiveDomain: tracked or not, or none.
DomainArguments == Domains \cup {"example.org", NoDomain}

\* C23: in every call of setActiveDomain the flush comes first and credits
\* the domain and the start the call found; the timer is updated next, with
\* storage still untouched; then storage is written, with the rule table
\* still untouched; checkLimits comes last and changes the rule table only.
\* Whenever the rule table differs from the one the call found, storage holds
\* the flushed usage.
C23_SetActiveDomainOrder ==
  [](\A domain \in DomainArguments :
       \A w \in {ensureInit(World, now)} :
         \A tr \in {setActiveDomainSteps(w, domain, now)} :
           /\ tr[5] = setActiveDomain(w, domain, now)
           /\ tr[2].activeDomain = w.activeDomain
           /\ \A d \in Domains \ {w.activeDomain} :
                Get(tr[2].todayUsage, d) = Get(w.todayUsage, d)
           /\ (TimerRuns(w) /\ Elapsed(w, now) > 0) =>
                Get(tr[2].todayUsage, w.activeDomain)
                  = Get(w.todayUsage, w.activeDomain) + Elapsed(w, now)
           /\ tr[3].todayUsage = tr[2].todayUsage
           /\ tr[3].activeDomain = tr[5].activeDomain
           /\ Persisted(tr[3]) = Persisted(w)
           /\ tr[4].rules = w.rules
           /\ tr[4].storedDomain = tr[3].activeDomain
           /\ tr[4].storedStart = tr[3].activeStart
           /\ [tr[5] EXCEPT !.rules = w.rules] = tr[4]
           /\ \A i \in 1 .. 5 :
                tr[i].rules # w.rules => Ledger(tr[i], now) = tr[2].todayUsage)

\* C23 witness: a call of setActiveDomain whose flush credits an interval
\* that storage does not hold yet, and whose checkLimits adds a rule.
C23_Witness ==
  \E domain \in DomainArguments :
    \E tr \in {setActiveDomainSteps(ensureInit(World, now), domain, now)} :
      /\ tr[2].todayUsage # Ledger(World, now)
      /\ tr[5].rules # rules
      /\ tr[5].activeDomain # storedDomain

\* C24: a call setActiveDomain(d) leaves the timer (d, now), in memory and
\* in storage, exactly when d is not null and is a key of the policy cached
\* when the call is made; otherwise it leaves no timer.  The call does not
\* change the cached policy.
C24_TimerOnlyForTrackedDomain ==
  \A domain \in DomainArguments :
    \A w \in {World, ensureInit(World, now)} :
      \A a \in {setActiveDomain(w, domain, now)} :
        /\ a.settings = w.settings
        /\ a.storedDomain = a.activeDomain
        /\ a.storedStart = a.activeStart
        /\ IF domain # NoDomain /\ domain \in DOMAIN w.settings
           THEN a.activeDomain = domain /\ a.activeStart = now
           ELSE a.activeDomain = NoDomain /\ a.activeStart = NoStart

\* C24 witness: while a domain of the policy is being timed, a listener can
\* call setActiveDomain with a domain the dashboard offers but the policy
\* lacks, or with an untracked site (the timer ends), and with the timed
\* domain again (the timer restarts at the current instant).
C24_Witness ==
  \E timed \in DOMAIN HydratedPolicy :
    /\ storedDomain = timed
    /\ storedStart # NoStart /\ storedStart < now
    /\ \E d \in Domains \ DOMAIN HydratedPolicy :
         ~TimerRuns(setActiveDomain(ensureInit(World, now), d, now))
    /\ setActiveDomain(ensureInit(World, now), "example.org", now).activeStart = NoStart
    /\ setActiveDomain(ensureInit(World, now), timed, now).activeStart = now

\* windows.onFocusChanged with WINDOW_ID_NONE: no window of the browser has
\* the focus.
FocusLostEvent == Event("windows.onFocusChanged", FALSE, FALSE, NoUrl, NoSettings)

\* The larger of two numbers.
Max(a, b) == IF a >= b THEN a ELSE b

\* C25: the listener of a focus change to no window credits the interval
\* since the persisted start (to the nearest second) to the domain that was
\* being timed, and leaves no timer in memory or in storage, with today's key
\* holding the credited ledger.  From a state without a timer, no step (alarm
\* ticks, restarts, and the listener that starts the next timer included)
\* raises a usage entry of the stored ledger or of the ledger in memory.
C25_FocusLossStopsTimer ==
  [][/\ \A a \in {After(FocusLostEvent)} :
          /\ a.activeDomain = NoDomain /\ a.activeStart = NoStart
          /\ a.storedDomain = NoDomain /\ a.storedStart = NoStart
          /\ Ledger(a, now) = a.todayUsage
          /\ (storedDomain # NoDomain /\ storedStart # NoStart /\ now > storedStart) =>
               Get(a.todayUsage, storedDomain)
                 = Get(Ledger(World, now), storedDomain) + MathRound(now - storedStart)
     /\ (activeDomain = NoDomain /\ storedDomain = NoDomain) =>
          \A d \in Domains :
            /\ Get(Ledger(World', now'), d) <= Get(Ledger(World, now), d)
            /\ Get(todayUsage', d) <= Max(Get(todayUsage, d), Get(Ledger(World, now), d))]_vars

\* C25 witness: the focus is lost while a domain of the policy has been timed
\* for a minute or more on top of usage already in today's ledger, and the
\* alarm exists.
C25_Witness ==
  /\ alarm
  /\ storedDomain \in DOMAIN HydratedPolicy
  /\ DayOf(storedStart) = DayOf(now)
  /\ now - storedStart >= SecondsPerMinute * MsPerSecond
  /\ Get(Ledger(World, now), storedDomain) > 0
  /\ Get(After(FocusLostEvent).todayUsage, storedDomain)
       > Get(Ledger(World, now), storedDomain)
  /\ \E ev \in AlarmEvents(After(FocusLostEvent)) :
       Handle(After(FocusLostEvent), ev, now + SecondsPerMinute * MsPerSecond).todayUsage
         = After(FocusLostEvent).todayUsage

\* tabs.onActivated for a tab that is closed before chrome.tabs.get reads it.
TabGoneEvent == Event("tabs.onActivated", FALSE, FALSE, NoUrl, NoSettings)

\* C26: when chrome.tabs.get fails, the tabs.onActivated listener leaves the
\* world as hydration made it: the ledger and the timer are the stored ones,
\* both storage areas and the rule table are untouched; the timer goes on, in
\* that the alarm listener a minute later ends in the world it would have
\* ended in had the tab event never come.
C26_FailedLookupChangesNothing ==
  \A a \in {After(TabGoneEvent)} :
    /\ a = ensureInit(World, now)
    /\ Persisted(a) = Persisted(World)
    /\ a.todayUsage = Ledger(World, now)
    /\ a.activeDomain = storedDomain
    /\ a.activeStart = storedStart
    /\ \A ev \in AlarmEvents(World) :
         Handle(a, ev, now + SecondsPerMinute * MsPerSecond)
           = Handle(World, ev, now + SecondsPerMinute * MsPerSecond)

\* C26 witness: the lookup fails in a worker started afresh while storage
\* holds a timer started earlier today, a ledger of today and a rule; the
\* next alarm credits the timed domain.
C26_Witness ==
  /\ JustStarted
  /\ storedDomain # NoDomain
  /\ storedStart # NoStart /\ storedStart < now
  /\ DayOf(storedStart) = DayOf(now)
  /\ DayOf(now) \in DOMAIN usageStore
  /\ rules # {}
  /\ TimerRuns(After(TabGoneEvent))
  /\ \E ev \in AlarmEvents(World) :
       Get(Handle(After(TabGoneEvent), ev, now + SecondsPerMinute * MsPerSecond).todayUsage,
           storedDomain)
         > Get(Ledger(World, now), storedDomain)

\* C30: the "settings" key of chrome.storage.sync changes only in a step of
\* the storage.onChanged listener, where it holds the value the notification
\* reports (the dashboard's write): no listener writes it.  The cached policy
\* is, after every step, the one it was, the initial one of a worker started
\* afresh, or the whole policy chrome.storage.sync holds; after a
\* notification that carries a new value it is that value (a notification of
\* the key's removal carries none, and the cached policy stays as it is).
C30_PolicyReadOnly ==
  [][/\ sync' # sync =>
          \E ev \in SettingsChangedEvents(World) :
            /\ sync' = ev.newValue
            /\ World' = After(ev)
            /\ ev.newValue.present => settings' = ev.newValue.restrictedDomains
     /\ \/ settings' = settings
        \/ settings' = InitialSettings
        \/ sync'.present /\ settings' = sync'.restrictedDomains]_vars

\* C30 witness: the worker caches the policy storage holds, a rule is in the
\* table, and a notification can bring a different policy.
C30_Witness ==
  /\ sync.present
  /\ settings = sync.restrictedDomains
  /\ settings # EmptyMap
  /\ rules # {}
  /\ \E ev \in SettingsChangedEvents(World) :
       /\ ev.newValue.present
       /\ After(ev).settings = ev.newValue.restrictedDomains
       /\ After(ev).settings # settings

\* C31: no step changes the value stored under the usage key of a day
\* earlier than the current one, and such a key leaves chrome.storage.local
\* only in a step that runs the retention sweep (onInstalled, onStartup);
\* the usage key a step writes is the key of the current day.
C31_PastLedgersImmutable ==
  [][/\ \A day \in DOMAIN usageStore :
          day < DayOf(now') =>
            /\ day \in DOMAIN usageStore' => usageStore'[day] = usageStore[day]
            /\ day \notin DOMAIN usageStore' => InitializationStep
     /\ \A day \in DOMAIN usageStore' :
          (day \notin DOMAIN usageStore \/ usageStore'[day] # usageStore[day]) =>
            day = todayKey(now')]_vars

\* C31 witness: storage holds the non-empty ledger of an earlier day next to
\* a different ledger of today, while a timer started on the earlier day is
\* still to be flushed.
C31_Witness ==
  \E day \in DOMAIN usageStore :
    /\ day < DayOf(now)
    /\ usageStore[day] # EmptyMap
    /\ DayOf(now) \in DOMAIN usageStore
    /\ usageStore[DayOf(now)] # usageStore[day]
    /\ storedStart # NoStart

\* C33: when a listener has completed, every rule of the table is the rule
\* of a domain that is a key of the policy chrome.storage.sync holds.
C33_RulesWithinPolicy ==
  \A r \in rules : sync.present /\ r.domain \in DOMAIN sync.restrictedDomains

C35_FlushCreditsActiveDomainOnly ==
  /\ \A w \in FlushSites :
       \A f \in {flushActiveTimer(w, now)} :
         /\ \A d \in ((DOMAIN f.todayUsage) \cup (DOMAIN w.todayUsage)) \ {w.activeDomain} :
              d \in DOMAIN w.todayUsage /\ d \in DOMAIN f.todayUsage
                /\ f.todayUsage[d] = w.todayUsage[d]
         /\ [f EXCEPT !.todayUsage = w.todayUsage, !.activeStart = w.activeStart] = w
  /\ (storedDomain # NoDomain /\ storedStart # NoStart
        /\ storedDomain \notin DOMAIN HydratedPolicy) =>
       /\ \A ev \in AlarmEvents(World) :
            /\ After(ev).activeDomain = storedDomain
            /\ now - storedStart > 0 =>
                 Get(After(ev).todayUsage, storedDomain)
                   = Get(Ledger(World, now), storedDomain) + MathRound(now - storedStart)
       /\ ~TimerRuns(setActiveDomain(ensureInit(World, now), storedDomain, now))

\* C35 witness: a domain that the settings no longer hold is being timed
\* since a minute or more, the other domain of the dashboard has usage in
\* today's ledger, and the alarm is due.
C35_Witness ==
  /\ storedDomain # NoDomain
  /\ storedStart # NoStart
  /\ sync.present
  /\ storedDomain \notin DOMAIN sync.restrictedDomains
  /\ now - storedStart >= SecondsPerMinute * MsPerSecond
  /\ \E d \in Domains \ {storedDomain} : Get(Ledger(World, now), d) > 0
  /\ \E ev \in AlarmEvents(World) :
       Get(After(ev).todayUsage, storedDomain) > Get(Ledger(World, now), storedDomain)

\* The schemes of the pages that are tracked.
TrackedSchemes == {"http", "https"}

\* C37: getDomain returns null for an input that does not parse (the empty
\* string included), the hostname without one leading "www." for a URL that
\* parses, so that a listener leaves the same world for "www.D" as for "D",
\* and none for the URL of an internal page.
C37_GetDomainClassifies ==
  /\ \A url \in Urls \cup {InternalUrl} :
       /\ ~url.valid => getDomain(url) = NoDomain
       /\ (url.valid /\ url.scheme \in TrackedSchemes) => getDomain(url) = url.rest
       /\ (url.valid /\ url.scheme \notin TrackedSchemes) => getDomain(url) = NoDomain
  /\ \A domain \in Domains :
       setActiveDomain(ensureInit(World, now), getDomain(Url(TRUE, TRUE, domain)), now)
         = setActiveDomain(ensureInit(World, now), getDomain(Url(TRUE, FALSE, domain)), now)

\* C38: when a listener has completed, activeDomain is null exactly when
\* activeStart is null, in the globals and in chrome.storage.local, and so it
\* is after hydration in a worker started afresh: a timer is a domain with a
\* start instant, or there is none.
C38_TimerIsDomainWithStart ==
  /\ (activeDomain = NoDomain) = (activeStart = NoStart)
  /\ (storedDomain = NoDomain) = (storedStart = NoStart)
  /\ \A h \in {ensureInit(ResetMemory(World), now)} :
       (h.activeDomain = NoDomain) = (h.activeStart = NoStart)

\* C38 witness: a timer that ran for a minute or more has just been ended by
\* a call of setActiveDomain for an untracked site, in a worker that stayed
\* alive, and today's ledger shows the credit.
C38_Witness ==
  /\ activeDomain = NoDomain /\ storedDomain = NoDomain
  /\ ~JustStarted
  /\ HydratedPolicy # EmptyMap
  /\ DayOf(now) \in DOMAIN usageStore
  /\ \E d \in DOMAIN HydratedPolicy : Get(usageStore[DayOf(now)], d) >= SecondsPerMinute
  /\ World = setActiveDomain(World, "example.org", now)

\* ------------------------------------------------------------------------
\* SpecDwell: one calendar day under one policy, the clock strictly
\* increasing, with an observer that measures the dwell intervals exactly
\* ------------------------------------------------------------------------

\* The events whose listeners call setActiveDomain.
SetActiveEvents ==
  {ev \in TabActivatedEvents \cup TabUpdatedEvents \cup FocusChangedEvents :
     CallsSetActiveDomain(ev)}

\* The state after onInstalled and the dashboard's first save of a policy
\* that tracks some domain.
InitDwell ==
  /\ \E p \in Policies \ {EmptyMap} : settings = p /\ sync = Settings(p)
  /\ todayUsage = InitialUsage
  /\ activeDomain = NoDomain
  /\ activeStart = NoStart
  /\ usageStore = EmptyMap
  /\ storedDomain = NoDomain
  /\ storedStart = NoStart
  /\ rules = {}
  /\ alarm = TRUE
  /\ now = StartNow
  /\ ticks = 0
  /\ focus = NoDomain
  /\ since = NoStart
  /\ dwell = EmptyMap
  /\ text = <<>>
  /\ hash = <<0, 0>>
  /\ pending = <<>>

\* A listener calls setActiveDomain; the observer closes the interval of the
\* domain that was active and opens the next.
DwellSetActive ==
  \E ev \in SetActiveEvents :
    /\ Run(ev)
    /\ dwell' = IF focus # NoDomain
                THEN Put(dwell, focus, Get(dwell, focus) + (now - since))
                ELSE dwell
    /\ focus' = IF DomainOf(ev) \in DOMAIN sync.restrictedDomains
                THEN DomainOf(ev) ELSE NoDomain
    /\ since' = now

DwellAlarm == \E ev \in AlarmEvents(World) : Deliver(ev)

DwellRestart == \E ev \in {RestartEvent} : Deliver(ev)

DwellAdvance ==
  /\ ticks < MaxDwellTicks
  /\ \E dt \in DwellDeltas : now' = now + dt /\ DayOf(now + dt) = DayOf(now)
  /\ ticks' = ticks + 1
  /\ UNCHANGED <<settings, todayUsage, activeDomain, activeStart, sync, usageStore,
                 storedDomain, storedStart, rules, alarm, focus, since, dwell,
                 text, hash, pending>>

NextDwell ==
  \/ DwellSetActive
  \/ DwellAlarm
  \/ DwellRestart
  \/ DwellAdvance

SpecDwell == InitDwell /\ [][NextDwell]_vars

\* The ms the domain has been the active domain up to the current instant.
DwellUntilNow(domain) ==
  Get(dwell, domain) + (IF focus = domain THEN now - since ELSE 0)

\* C1: after the flush of any setActiveDomain call, the usage recorded for
\* every tracked domain equals, in seconds, the total length of the
\* intervals during which it was the active domain (the two differ by less
\* than one second).
C1_UsageEqualsDwell ==
  \A ev \in SetActiveEvents :
    \A d \in DOMAIN sync.restrictedDomains :
      /\ MsPerSecond * Get(After(ev).todayUsage, d) - DwellUntilNow(d) < MsPerSecond
      /\ DwellUntilNow(d) - MsPerSecond * Get(After(ev).todayUsage, d) < MsPerSecond

\* ------------------------------------------------------------------------
\* SpecSweep: full initialization over a storage that holds the ledgers of
\* any of the last MaxKeyAge days
\* ------------------------------------------------------------------------

\* The ledger stored under the key of a past day.
PastLedger == Put(EmptyMap, "youtube.com", SecondsPerMinute)

\* Noon of day MaxKeyAge; the keys in storage are of days 0 .. MaxKeyAge, or
\* malformed.
InitSweep ==
  /\ settings = InitialSettings
  /\ todayUsage = InitialUsage
  /\ activeDomain = NoDomain
  /\ activeStart = NoStart
  /\ sync \in {NoSettings, Settings(PastLedger)}
  /\ \E keys \in SUBSET ((0 .. MaxKeyAge) \cup MalformedKeys) :
       usageStore = [key \in keys |-> PastLedger]
  /\ storedDomain = NoDomain
  /\ storedStart = NoStart
  /\ rules = {}
  /\ alarm = FALSE
  /\ now = StartNow + MaxKeyAge * MsPerDay
  /\ ticks = 0
  /\ focus = NoDomain
  /\ since = NoStart
  /\ dwell = EmptyMap
  /\ text = <<>>
  /\ hash = <<0, 0>>
  /\ pending = <<>>

SweepInstalled == \E ev \in {InstalledEvent} : Deliver(ev)

SweepStartup == \E ev \in {StartupEvent} : Deliver(ev)

NextSweep ==
  \/ SweepInstalled
  \/ SweepStartup

SpecSweep == InitSweep /\ [][NextSweep]_vars

\* The keys of the days that are more than USAGE_RETENTION_DAYS days before
\* the day of instant t.
ExpiredKeys(store, t) ==
  {day \in (DOMAIN store) \ MalformedKeys : day < DayOf(t) - USAGE_RETENTION_DAYS}

\* C13: the sweep of a full initialization removes exactly the usage keys of
\* days more than 7 days before today, and leaves every other key of
\* chrome.storage.local with its value.
C13_SweepRemovesExactlyOldKeys ==
  \A ev \in {InstalledEvent, StartupEvent} :
    \A a \in {After(ev)} :
      /\ DOMAIN a.usageStore = (DOMAIN usageStore) \ ExpiredKeys(usageStore, now)
      /\ \A day \in DOMAIN a.usageStore : a.usageStore[day] = usageStore[day]
      /\ a.storedDomain = storedDomain
      /\ a.storedStart = storedStart

\* C27: the sweep of a full initialization (and cleanupOldUsage on its own,
\* in a worker started afresh) leaves in chrome.storage.local, with its
\* value, every key that starts with "usage_" and has not exactly three
\* fields, or has three fields that name no date.
C27_MalformedKeysKept ==
  \A key \in (DOMAIN usageStore) \cap MalformedKeys :
    /\ \A ev \in {InstalledEvent, StartupEvent} :
         /\ key \in DOMAIN After(ev).usageStore
         /\ After(ev).usageStore[key] = usageStore[key]
    /\ key \in DOMAIN cleanupOldUsage(ResetMemory(World), now).usageStore

\* C27 witness: onInstalled has run over a storage that holds the three
\* malformed keys next to the key of today and the key of the oldest day.
C27_Witness ==
  /\ alarm
  /\ MalformedKeys \subseteq DOMAIN usageStore
  /\ DayOf(now) \in DOMAIN usageStore
  /\ 0 \in DOMAIN usageStore
  /\ DayOf(now) - USAGE_RETENTION_DAYS > 0

\* ------------------------------------------------------------------------
\* SpecHash: the loop of ruleIdFor over every string of up to MaxLen
\* characters
\* ------------------------------------------------------------------------

\* ruleIdFor is entered: hash = 0, no character consumed.
InitHash ==
  /\ settings = InitialSettings
  /\ todayUsage = InitialUsage
  /\ activeDomain = NoDomain
  /\ activeStart = NoStart
  /\ sync = NoSettings
  /\ usageStore = EmptyMap
  /\ storedDomain = NoDomain
  /\ storedStart = NoStart
  /\ rules = {}
  /\ alarm = FALSE
  /\ now = StartNow
  /\ ticks = 0
  /\ focus = NoDomain
  /\ since = NoStart
  /\ dwell = EmptyMap
  /\ text = <<>>
  /\ hash = <<0, 0>>
  /\ pending = <<>>

\* One round of the loop, on the next character of the string.
HashChar ==
  /\ Len(text) < MaxLen
  /\ \E c \in Chars :
       /\ text' = Append(text, c)
       /\ hash' = HashStep(hash, c)
  /\ UNCHANGED <<settings, todayUsage, activeDomain, activeStart, sync, usageStore,
                 storedDomain, storedStart, rules, alarm, now, ticks, focus, since, dwell,
                 pending>>

NextHash == HashChar

SpecHash == InitHash /\ [][NextHash]_vars

\* The domains whose char codes the model spells out, and the empty string.
SpelledDomains ==
  Domains \cup {"instagram.com", "example.org", "tiktok.com", "pinterest.com", NoDomain}

\* C28: for every string (the empty one, and those whose hash has wrapped
\* around or is negative) the loop's word is a signed 32-bit value and the id
\* returned for it is DYNAMIC_RULE_ID_START plus a value in 0 .. 9999, that
\* is, an integer in 1000 .. 10999; so are the ids of the domains the model
\* spells out.
C28_RuleIdInRange ==
  /\ hash = HashFrom(<<0, 0>>, text)
  /\ hash[1] \in 0 .. (Half - 1) /\ hash[2] \in 0 .. (Half - 1)
  /\ ToInt32(hash) \div Half \in -(Half \div 2) .. (Half \div 2 - 1)
  /\ RuleIdOfHash(hash) - DYNAMIC_RULE_ID_START \in 0 .. (HashModulus - 1)
  /\ RuleIdOfHash(hash) \in 1000 .. 10999
  /\ \A domain \in SpelledDomains :
       /\ ruleIdFor(domain) = RuleIdOfHash(HashFrom(<<0, 0>>, CharCodes(domain)))
       /\ ruleIdFor(domain) \in 1000 .. 10999

\* C28 witness: a string whose hash has wrapped around to a negative value
\* that is no multiple of 10000.
C28_Witness ==
  /\ Len(text) = MaxLen
  /\ ToInt32(hash) < 0
  /\ RuleIdOfHash(hash) > DYNAMIC_RULE_ID_START

\* ------------------------------------------------------------------------
\* SpecCollide: one calendar day under a policy of two domains the user
\* added in the dashboard
\* ------------------------------------------------------------------------

\* The policy: both domains, a limit of one minute each.
CollidingPolicy == [domain \in CollidingDomains |-> 1]

\* The events of SpecCollide: a tab of either domain is activated, the
\* browser loses the focus.
CollideEvents ==
  {Event("tabs.onActivated", TRUE, TRUE, Url(TRUE, FALSE, domain), NoSettings) :
     domain \in CollidingDomains}
    \cup {FocusLostEvent}

\* The state after onInstalled and the dashboard's save of the policy.
InitCollide ==
  /\ settings = CollidingPolicy
  /\ todayUsage = InitialUsage
  /\ activeDomain = NoDomain
  /\ activeStart = NoStart
  /\ sync = Settings(CollidingPolicy)
  /\ usageStore = EmptyMap
  /\ storedDomain = NoDomain
  /\ storedStart = NoStart
  /\ rules = {}
  /\ alarm = TRUE
  /\ now = StartNow
  /\ ticks = 0
  /\ focus = NoDomain
  /\ since = NoStart
  /\ dwell = EmptyMap
  /\ text = <<>>
  /\ hash = <<0, 0>>
  /\ pending = <<>>

CollideTab == \E ev \in CollideEvents : Deliver(ev)

CollideAlarm == \E ev \in AlarmEvents(World) : Deliver(ev)

CollideRestart == \E ev \in {RestartEvent} : Deliver(ev)

CollideAdvance ==
  /\ ticks < MaxCollideTicks
  /\ \E dt \in DwellDeltas : now' = now + dt
  /\ ticks' = ticks + 1
  /\ UNCHANGED <<settings, todayUsage, activeDomain, activeStart, sync, usageStore,
                 storedDomain, storedStart, rules, alarm, focus, since, dwell,
                 text, hash, pending>>

NextCollide ==
  \/ CollideTab
  \/ CollideAlarm
  \/ CollideRestart
  \/ CollideAdvance

SpecCollide == InitCollide /\ [][NextCollide]_vars

\* C29: when a listener has run checkLimits, any two distinct domains of the
\* policy that are both at or above their limits both have their block rule
\* in the table; and adding or removing the rule of one domain of the policy
\* leaves the rule of every other domain in the table.
C29_OneRulePerDomain ==
  /\ \A ev \in CollideEvents \cup AlarmEvents(World) :
       \A a \in {After(ev)} :
         \A d1 \in DOMAIN a.settings :
           \A d2 \in (DOMAIN a.settings) \ {d1} :
             (AtLimit(a, d1) /\ AtLimit(a, d2)) => (Blocked(a, d1) /\ Blocked(a, d2))
  /\ \A d1 \in DOMAIN settings :
       \A d2 \in (DOMAIN settings) \ {d1} :
         Blocked(World, d2) =>
           /\ Blocked(addDynamicBlockRule(World, d1), d2)
           /\ Blocked(removeDynamicBlockRule(World, d1), d2)

\* ------------------------------------------------------------------------
\* SpecDashboard: the settings page edits the policy, the worker's
\* storage.onChanged listener follows every save
\* ------------------------------------------------------------------------

\* The text of the dashboard's domain input, as a sequence of pieces: blanks,
\* a scheme, "www.", a host in lower or upper case, a path.
Pieces(flag, piece) == IF flag THEN <<piece>> ELSE <<>>

TypedHosts == {"youtube.com", "REDDIT.COM"}

TypedDomains ==
  {Pieces(pad, " ") \o Pieces(scheme, "https://") \o Pieces(www, "www.")
     \o <<host>> \o Pieces(path, "/watch") \o Pieces(pad, " ") :
       pad \in BOOLEAN, scheme \in BOOLEAN, www \in BOOLEAN, path \in BOOLEAN,
       host \in TypedHosts}
    \cup {<<>>, <<" ">>}

\* String.prototype.trim
RECURSIVE Trim(_)
Trim(txt) ==
  IF txt = <<>> THEN txt
  ELSE IF Head(txt) = " " THEN Trim(Tail(txt))
  ELSE IF txt[Len(txt)] = " " THEN Trim(SubSeq(txt, 1, Len(txt) - 1))
  ELSE txt

\* String.prototype.toLowerCase
ToLowerCase(txt) ==
  [i \in 1 .. Len(txt) |->
     CASE txt[i] = "REDDIT.COM" -> "reddit.com"
       [] txt[i] = "YOUTUBE.COM" -> "youtube.com"
       [] OTHER -> txt[i]]

\* .replace(/^https?:\/\//, '') and .replace(/^www\./, ''): a leading piece
\* is dropped.
DropLeading(txt, piece) == IF txt # <<>> /\ Head(txt) = piece THEN Tail(txt) ELSE txt

\* .replace(/\/.*$/, ''): the text is cut at its first "/".
RECURSIVE CutPath(_)
CutPath(txt) ==
  IF txt = <<>> THEN txt
  ELSE IF Head(txt) = "/watch" THEN <<>>
  ELSE IF Head(txt) = "https://" THEN <<"https:">>
  ELSE <<Head(txt)>> \o CutPath(Tail(txt))

\* The domain handleAddDomain makes of the typed text.
NormalizedText(typed) ==
  CutPath(DropLeading(DropLeading(ToLowerCase(Trim(typed)), "https://"), "www."))

\* The string of a text of at most one piece.
Text(txt) == IF txt = <<>> THEN NoDomain ELSE txt[1]

\* handleAddDomain: the policy the dashboard holds after the click on Add
\* (the one it had when nothing is saved).
handleAddDomain(policy, typed, limit) ==
  LET domain == Text(NormalizedText(typed))
  IN  IF domain = NoDomain THEN policy
      ELSE IF domain \in DOMAIN policy THEN policy
      ELSE Put(policy, domain, limit)

\* handleRemoveDomain
handleRemoveDomain(policy, domain) == [d \in (DOMAIN policy) \ {domain} |-> policy[d]]

\* saveSettings, and the notification the worker receives for it.
SaveSettings(policy) ==
  Deliver(Event("storage.onChanged", TRUE, FALSE, NoUrl, Settings(policy)))

\* A fresh install, after onInstalled; the dashboard has not been opened.
InitDashboard ==
  /\ settings = InitialSettings
  /\ todayUsage = InitialUsage
  /\ activeDomain = NoDomain
  /\ activeStart = NoStart
  /\ sync = NoSettings
  /\ usageStore = EmptyMap
  /\ storedDomain = NoDomain
  /\ storedStart = NoStart
  /\ rules = {}
  /\ alarm = TRUE
  /\ now = StartNow
  /\ ticks = 0
  /\ focus = NoDomain
  /\ since = NoStart
  /\ dwell = EmptyMap
  /\ text = <<>>
  /\ hash = <<0, 0>>
  /\ pending = <<>>

\* loadData: the dashboard opens on an empty storage and stores the defaults.
DashLoad == ~sync.present /\ SaveSettings(DEFAULT_SETTINGS)

\* The user adds a domain.
DashAdd ==
  /\ sync.present
  /\ \E typed \in TypedDomains, limit \in LimitInputs :
       /\ handleAddDomain(sync.restrictedDomains, typed, limit) # sync.restrictedDomains
       /\ SaveSettings(handleAddDomain(sync.restrictedDomains, typed, limit))

\* The user removes a domain.
DashRemove ==
  /\ sync.present
  /\ \E domain \in DOMAIN sync.restrictedDomains :
       SaveSettings(handleRemoveDomain(sync.restrictedDomains, domain))

\* The worker is restarted between two saves.
DashRestart == \E ev \in {RestartEvent} : Deliver(ev)

NextDashboard ==
  \/ DashLoad
  \/ DashAdd
  \/ DashRemove
  \/ DashRestart

SpecDashboard == InitDashboard /\ [][NextDashboard]_vars

\* C36: every key of the policy the dashboard has stored is a host in lower
\* case, without blanks, scheme, leading "www." or path; a click on Add makes
\* such a key of whatever is typed, and leaves the policy as it is when the
\* domain is already a key; every stored dailyLimitMinutes is a positive
\* integer, and no rule blocks a domain that has no usage today.
C36_StoredPolicyWellFormed ==
  /\ \A domain \in DOMAIN sync.restrictedDomains :
       /\ domain \in DOMAIN DEFAULT_SETTINGS
       /\ sync.restrictedDomains[domain] \in Nat \ {0}
  /\ \A typed \in TypedDomains, limit \in LimitInputs :
       /\ Len(NormalizedText(typed)) <= 1
       /\ Text(NormalizedText(typed)) \in (DOMAIN DEFAULT_SETTINGS) \cup {NoDomain}
       /\ Text(NormalizedText(typed)) \in DOMAIN sync.restrictedDomains =>
            handleAddDomain(sync.restrictedDomains, typed, limit) = sync.restrictedDomains
  /\ \A r \in rules : Get(Ledger(World, now), r.domain) > 0

\* ------------------------------------------------------------------------
\* SpecInterleave: two listeners run at a time, a step of one between two
\* awaits of the other
\* ------------------------------------------------------------------------

MaxInterleaveTicks == 3

\* The policy of SpecInterleave.
InterleavePolicy == [domain \in Domains |-> 1]

\* The events whose listeners interleave: a tab of a tracked site is
\* activated, the persist alarm fires.
InterleaveEvents ==
  {Event("tabs.onActivated", TRUE, TRUE, Url(TRUE, FALSE, domain), NoSettings) :
     domain \in Domains}
    \cup {Event("alarms.onAlarm", TRUE, FALSE, NoUrl, NoSettings)}

\* What chrome.storage.local.get([key, "activeDomain", "activeStart"])
\* answers, and what persistUsage passes to chrome.storage.local.set.
LocalData(key, usage, domain, start) ==
  [key |-> key, usage |-> usage, activeDomain |-> domain, activeStart |-> start]

NoData == LocalData(0, EmptyMap, NoDomain, NoStart)

\* A listener that has been invoked for ev, suspended at `await`: "sync.get",
\* "local.get" and "tabs.get" are the awaits of ensureInit and onActivated,
\* "local.set" the one of persistUsage.  served: the platform has carried the
\* call out, the listener has not resumed yet.  data: the answer of a served
\* local.get, or the argument of local.set.  behind: the other listener's
\* call of chrome.storage.local was made before this one's and has not been
\* carried out yet.  alone: no other listener has run beside this one so far.
Suspended(ev, await, served, data, behind, alone) ==
  [ev |-> ev, await |-> await, served |-> served, data |-> data,
   behind |-> behind, alone |-> alone]

\* The state after setActiveDomain("youtube.com") at StartNow, the policy
\* being InterleavePolicy; no listener is running.
InitInterleave ==
  /\ settings = InterleavePolicy
  /\ todayUsage = EmptyMap
  /\ activeDomain = "youtube.com"
  /\ activeStart = StartNow
  /\ sync = Settings(InterleavePolicy)
  /\ usageStore = Put(EmptyMap, todayKey(StartNow), EmptyMap)
  /\ storedDomain = "youtube.com"
  /\ storedStart = StartNow
  /\ rules = {}
  /\ alarm = TRUE
  /\ now = StartNow
  /\ ticks = 0
  /\ focus = "youtube.com"
  /\ since = StartNow
  /\ dwell = EmptyMap
  /\ text = <<>>
  /\ hash = <<0, 0>>
  /\ pending = <<>>

\* Listener i calls chrome.storage.local while a call of the other listener
\* waits to be carried out.
Behind(i) ==
  \E j \in (1 .. Len(pending)) \ {i} :
    pending[j].await \in {"local.get", "local.set"} /\ ~pending[j].served

\* chrome.storage.local carries its calls out in the order they were made:
\* after a call has been carried out no call is behind another.
Served(i) ==
  [j \in 1 .. Len(pending) |->
     IF j = i THEN [pending[j] EXCEPT !.served = TRUE]
     ELSE [pending[j] EXCEPT !.behind = FALSE]]

\* The world becomes w and the listeners get the positions h, or listener i
\* returns.
Proceed(w, i, h, returns) ==
  /\ settings' = w.settings
  /\ todayUsage' = w.todayUsage
  /\ activeDomain' = w.activeDomain
  /\ activeStart' = w.activeStart
  /\ sync' = w.sync
  /\ usageStore' = w.usageStore
  /\ storedDomain' = w.storedDomain
  /\ storedStart' = w.storedStart
  /\ rules' = w.rules
  /\ alarm' = w.alarm
  /\ pending' = IF returns
                THEN SubSeq(pending, 1, i - 1) \o SubSeq(pending, i + 1, Len(pending))
                ELSE [j \in 1 .. Len(pending) |-> h[j]]
  /\ UNCHANGED <<now, ticks, dwell, text, hash>>

\* The platform invokes a listener: it calls ensureInit, which calls
\* chrome.storage.sync.get and awaits.  A second listener is invoked only
\* beside one that has run alone so far.
Invoke ==
  /\ \/ pending = <<>>
     \/ Len(pending) = 1 /\ pending[1].alone
  /\ \E ev \in InterleaveEvents :
       pending' = [i \in 1 .. Len(pending) |-> [pending[i] EXCEPT !.alone = FALSE]]
                    \o <<Suspended(ev, "sync.get", FALSE, NoData, FALSE, pending = <<>>)>>
  /\ UNCHANGED <<settings, todayUsage, activeDomain, activeStart, sync, usageStore,
                 storedDomain, storedStart, rules, alarm, now, ticks, focus, since,
                 dwell, text, hash>>

\* ensureInit resumes with syncData: it assigns settings, computes the key
\* and calls chrome.storage.local.get.
ResumeSyncGet(i) ==
  /\ pending[i].await = "sync.get"
  /\ Proceed([World EXCEPT
               !.settings = IF sync.present THEN sync.restrictedDomains ELSE settings],
             i,
             [pending EXCEPT
               ![i] = [@ EXCEPT !.await = "local.get", !.behind = Behind(i),
                                !.data = LocalData(todayKey(now), EmptyMap, NoDomain,
                                                   NoStart)]],
             FALSE)
  /\ UNCHANGED <<focus, since>>

\* chrome.storage.local reads the three keys.
ServeLocalGet(i) ==
  /\ pending[i].await = "local.get" /\ ~pending[i].served /\ ~pending[i].behind
  /\ Proceed(World, i,
             [Served(i) EXCEPT
               ![i].data = LocalData(pending[i].data.key,
                                     IF pending[i].data.key \in DOMAIN usageStore
                                     THEN usageStore[pending[i].data.key] ELSE EmptyMap,
                                     storedDomain, storedStart)],
             FALSE)
  /\ UNCHANGED <<focus, since>>

\* The world after ensureInit has assigned localData to the globals.
Hydrated(w, data) ==
  [w EXCEPT !.todayUsage = data.usage,
            !.activeDomain = data.activeDomain,
            !.activeStart = data.activeStart]

\* persistUsage up to its await: the flush, then the argument of
\* chrome.storage.local.set is built from the globals.
persistUsageCall(w, t) ==
  LET flushed == flushActiveTimer(w, t)
  IN  <<flushed,
        LocalData(todayKey(t), flushed.todayUsage, flushed.activeDomain,
                  flushed.activeStart)>>

\* ensureInit resumes with localData and returns to the listener: onAlarm
\* goes on to persistUsage, onActivated calls chrome.tabs.get.
ResumeLocalGet(i) ==
  /\ pending[i].await = "local.get" /\ pending[i].served
  /\ LET w == Hydrated(World, pending[i].data)
         call == persistUsageCall(w, now)
     IN  IF pending[i].ev.type = "alarms.onAlarm"
         THEN Proceed(call[1], i,
                      [pending EXCEPT
                        ![i] = [@ EXCEPT !.await = "local.set", !.served = FALSE,
                                         !.behind = Behind(i), !.data = call[2]]],
                      FALSE)
         ELSE Proceed(w, i,
                      [pending EXCEPT
                        ![i] = [@ EXCEPT !.await = "tabs.get", !.served = FALSE,
                                         !.data = NoData]],
                      FALSE)
  /\ UNCHANGED <<focus, since>>

\* onActivated resumes with the tab and calls setActiveDomain, which runs up
\* to the await in persistUsage.
ResumeTabsGet(i) ==
  /\ pending[i].await = "tabs.get"
  /\ LET domain == getDomain(pending[i].ev.url)
         timed == StartTimer(flushActiveTimer(World, now), domain, now)
         call == persistUsageCall(timed, now)
     IN  /\ Proceed(call[1], i,
                    [pending EXCEPT
                      ![i] = [@ EXCEPT !.await = "local.set", !.behind = Behind(i),
                                       !.data = call[2]]],
                    FALSE)
         /\ focus' = timed.activeDomain
         /\ since' = now

\* chrome.storage.local writes the three keys.
ServeLocalSet(i) ==
  /\ pending[i].await = "local.set" /\ ~pending[i].served /\ ~pending[i].behind
  /\ Proceed([World EXCEPT
               !.usageStore = Put(usageStore, pending[i].data.key, pending[i].data.usage),
               !.storedDomain = pending[i].data.activeDomain,
               !.storedStart = pending[i].data.activeStart],
             i, Served(i), FALSE)
  /\ UNCHANGED <<focus, since>>

\* persistUsage resumes and returns; the listener runs checkLimits and
\* returns.
ResumeLocalSet(i) ==
  /\ pending[i].await = "local.set" /\ pending[i].served
  /\ Proceed(checkLimits(World), i, pending, TRUE)
  /\ UNCHANGED <<focus, since>>

\* The clock advances by a second or by a minute.
InterleaveAdvance ==
  /\ ticks < MaxInterleaveTicks
  /\ \E dt \in {MsPerSecond, 60000} : now' = now + dt
  /\ ticks' = ticks + 1
  /\ UNCHANGED <<settings, todayUsage, activeDomain, activeStart, sync, usageStore,
                 storedDomain, storedStart, rules, alarm, focus, since, dwell,
                 text, hash, pending>>

NextInterleave ==
  \/ Invoke
  \/ \E i \in 1 .. Len(pending) : ResumeSyncGet(i)
  \/ \E i \in 1 .. Len(pending) : ServeLocalGet(i)
  \/ \E i \in 1 .. Len(pending) : ResumeLocalGet(i)
  \/ \E i \in 1 .. Len(pending) : ResumeTabsGet(i)
  \/ \E i \in 1 .. Len(pending) : ServeLocalSet(i)
  \/ \E i \in 1 .. Len(pending) : ResumeLocalSet(i)
  \/ InterleaveAdvance

SpecInterleave == InitInterleave /\ [][NextInterleave]_vars

\* The seconds the persisted ledger of today holds, all domains together.
RECURSIVE SumOf(_, _)
SumOf(usage, domains) ==
  IF domains = {} THEN 0
  ELSE LET d == CHOOSE x \in domains : TRUE
       IN  usage[d] + SumOf(usage, domains \ {d})

CreditedSeconds == SumOf(Ledger(World, now), DOMAIN Ledger(World, now))

\* The persisted timer is the one the last call of setActiveDomain set.
TimerOfLastCall == pending = <<>> => storedDomain = focus

\* The persisted ledger holds no more seconds than have passed.
NothingCreditedTwice ==
  pending = <<>> => CreditedSeconds * MsPerSecond <= now - StartNow

\* No step lowers a domain's persisted usage of the day.
PersistedUsageGrows ==
  [][\A domain \in DOMAIN Ledger(World, now) :
       DayOf(now') = DayOf(now) =>
         Get(Ledger(World, now)', domain) >= Get(Ledger(World, now), domain)]_vars

\* C32: whenever no listener is running any more, the persisted timer's
\* domain is the one the last call of setActiveDomain started timing, and
\* the persisted ledger holds no more seconds than have passed; and no step
\* lowers a domain's persisted usage of the day.
C32_InterleavingTolerated ==
  /\ [](TimerOfLastCall /\ NothingCreditedTwice)
  /\ PersistedUsageGrows

====
